---- MODULE Spec2Model ----
(***************************************************************************)
(* The dispatch layer of ivy: the public wrappers of                       *)
(* ivy/functional/ivy/sorting.py (argsort, sort, searchsorted) and         *)
(* ivy/functional/ivy/utility.py (all, any), each a stack of decorators    *)
(* around a one-line delegation to the active backend, and the instance    *)
(* method mixin ArrayWithElementwise of ivy/array/elementwise.py.          *)
(*                                                                         *)
(* One call of a wrapper is a walk down its decorator stack, the body, and *)
(* the walk back up.  Arrays are one-dimensional sequences of integers.    *)
(* Python's None is the string "None" for an out reference and the empty   *)
(* tuple <<>> for axis and sorter; an int axis n of all/any is <<n>>.      *)
(* A keyword the caller leaves out is <<>> in "passed", a keyword the      *)
(* caller gives with value v is <<v>>.                                     *)
(***************************************************************************)
EXTENDS Integers, Sequences, FiniteSets, TLC

VARIABLES
    backend,      \* the process-wide active backend
    outInBackend, \* whether the out decorator hands out on to the wrapped function
    pc,           \* "idle", "down", "up", "done"
    depth,        \* index of the decorator being entered or left
    call,         \* the call as the caller made it
    cur,          \* the arguments on their way down
    outref,       \* the out buffer held by the out decorator
    nest,         \* the container being unrolled by the nestable decorator
    heap,         \* the caller's arrays: X (the input x) and OUT (a separate buffer)
    log,          \* the backend methods invoked by this call, in order
    ret,          \* the value or exception on its way up
    trace,        \* the steps this call has taken, in order
    mixin,        \* the last call of a mixin method
    prev          \* the call completed before this one and what it showed

vars == <<backend, outInBackend, pc, depth, call, cur, outref, nest, heap, log,
          ret, trace, mixin, prev>>

\* Longest array of the model.
MaxLen == 2

Backends == {"numpy", "torch"}
Vals == {0, 1}
Datas == UNION {[1..n -> Vals] : n \in 1..MaxLen}
Kinds == {"ivy", "native"}

Arr(k, d) == [kind |-> k, data |-> d]
Cont(ks, ls) == [kind |-> "container", keys |-> ks, leaves |-> ls]
IsContainer(a) == a.kind = "container"

(***************************************************************************)
(* The backends' contract, as the wrappers' docstrings state it.           *)
(***************************************************************************)
Perms(n) == {p \in [1..n -> 1..n] : \A i, j \in 1..n : p[i] = p[j] => i = j}

InOrder(a, b, descending) == IF descending THEN a >= b ELSE a <= b

\* The permutations that sort d; a stable one keeps equal values in their order.
SortPerms(d, descending, stable) ==
    {p \in Perms(Len(d)) :
        /\ \A i, j \in 1..Len(d) : i < j => InOrder(d[p[i]], d[p[j]], descending)
        /\ stable => \A i, j \in 1..Len(d) :
                        (i < j /\ d[p[i]] = d[p[j]]) => p[i] < p[j]}

\* A valid axis of a one-dimensional array is in [-1, 1).
ValidAxis(n) == n \in {-1, 0}

SortData(d, descending, stable) ==
    {[i \in 1..Len(d) |-> d[p[i]]] : p \in SortPerms(d, descending, stable)}

ArgsortData(d, descending, stable) ==
    {[i \in 1..Len(d) |-> p[i] - 1] : p \in SortPerms(d, descending, stable)}

AllData(d) == {<<IF \A i \in 1..Len(d) : d[i] # 0 THEN 1 ELSE 0>>}

AnyData(d) == {<<IF \E i \in 1..Len(d) : d[i] # 0 THEN 1 ELSE 0>>}

SearchsortedData(d, v, side, sorter) ==
    LET xs == IF sorter = <<>> THEN d ELSE [i \in 1..Len(d) |-> d[sorter[i] + 1]]
        at(e) == IF side = "left"
                 THEN Cardinality({i \in 1..Len(xs) : xs[i] < e})
                 ELSE Cardinality({i \in 1..Len(xs) : xs[i] <= e})
    IN {[j \in 1..Len(v) |-> at(v[j])]}

\* Whether the backend method raises: it is handed something that is no array,
\* an axis outside the array's dimensions, or a side it does not know.
BackendRaises(name, pos, kw) ==
    \/ IsContainer(pos[1])
    \/ name \in {"sort", "argsort"} /\ ~ValidAxis(kw.axis)
    \/ name \in {"all", "any"} /\ pos[2] # <<>> /\ ~ValidAxis(pos[2][1])
    \/ name = "searchsorted" /\ (IsContainer(pos[2]) \/ kw.side \notin {"left", "right"})

BackendData(name, pos, kw) ==
    CASE name = "sort" -> SortData(pos[1].data, kw.descending, kw.stable)
      [] name = "argsort" -> ArgsortData(pos[1].data, kw.descending, kw.stable)
      [] name = "all" -> AllData(pos[1].data)
      [] name = "any" -> AnyData(pos[1].data)
      [] name = "searchsorted" ->
            SearchsortedData(pos[1].data, pos[2].data, kw.side, kw.sorter)

NoVal == Arr("native", <<>>)
Raised == [err |-> TRUE, translated |-> FALSE, val |-> NoVal, ref |-> "None"]
Returned(v) == [err |-> FALSE, translated |-> FALSE, val |-> v, ref |-> "None"]

\* What a backend's method may do with these arguments: raise, or return a
\* native array.  Where the contract leaves the result to the implementation
\* (the order of equal values under stable=False) every allowed result is one.
BackendOutcomes(b, name, pos, kw) ==
    IF BackendRaises(name, pos, kw)
    THEN {Raised}
    ELSE {Returned(Arr("native", d)) : d \in BackendData(name, pos, kw)}

(***************************************************************************)
(* The wrappers: their decorators (outermost first), the defaults of their *)
(* signatures, and what their bodies hand to the backend.                  *)
(***************************************************************************)
argsort_decorators ==
    <<"to_native_arrays_and_back", "handle_out_argument", "handle_nestable",
      "handle_exceptions">>

argsort_defaults ==
    [axis |-> -1, descending |-> FALSE, stable |-> TRUE, out |-> "None"]

\* argsort with descending left out of the backend call.
argsort_drops_descending(a) ==
    [resolve |-> <<a.pos[1]>>, name |-> "argsort", pos |-> <<a.pos[1]>>,
     kw |-> [axis |-> a.kw.axis, descending |-> FALSE,
             stable |-> a.kw.stable, out |-> a.kw.out]]

\* argsort with stable left out of the backend call, on a backend whose own
\* default is not to be stable.
argsort_never_stable(a) ==
    [resolve |-> <<a.pos[1]>>, name |-> "argsort", pos |-> <<a.pos[1]>>,
     kw |-> [axis |-> a.kw.axis, descending |-> a.kw.descending,
             stable |-> FALSE, out |-> a.kw.out]]

argsort(a) ==
    [resolve |-> <<a.pos[1]>>, name |-> "argsort", pos |-> <<a.pos[1]>>,
     kw |-> [axis |-> a.kw.axis, descending |-> a.kw.descending,
             stable |-> a.kw.stable, out |-> a.kw.out]]

\* sort without its out decorator.
sort_decorators_without_out ==
    <<"to_native_arrays_and_back", "handle_nestable", "handle_exceptions">>

\* sort without its nestable decorator.
sort_decorators_without_nestable ==
    <<"to_native_arrays_and_back", "handle_out_argument", "handle_exceptions">>

sort_decorators ==
    <<"to_native_arrays_and_back", "handle_out_argument", "handle_nestable",
      "handle_exceptions">>

sort_defaults ==
    [axis |-> -1, descending |-> FALSE, stable |-> TRUE, out |-> "None"]

sort(a) ==
    [resolve |-> <<a.pos[1]>>, name |-> "sort", pos |-> <<a.pos[1]>>,
     kw |-> [axis |-> a.kw.axis, descending |-> a.kw.descending,
             stable |-> a.kw.stable, out |-> a.kw.out]]

searchsorted_decorators ==
    <<"to_native_arrays_and_back", "handle_out_argument", "handle_nestable",
      "handle_exceptions">>

searchsorted_defaults == [side |-> "left", sorter |-> <<>>, out |-> "None"]

searchsorted(a) ==
    [resolve |-> <<a.pos[1], a.pos[2]>>, name |-> "searchsorted",
     pos |-> <<a.pos[1], a.pos[2]>>,
     kw |-> [side |-> a.kw.side, sorter |-> a.kw.sorter, out |-> a.kw.out]]

all_decorators ==
    <<"to_native_arrays_and_back", "handle_out_argument", "handle_nestable">>

all_defaults == [axis |-> <<>>, keepdims |-> FALSE, out |-> "None"]

all(a) ==
    [resolve |-> <<a.pos[1]>>, name |-> "all",
     pos |-> <<a.pos[1], a.kw.axis, a.kw.keepdims>>, kw |-> [out |-> a.kw.out]]

any_decorators ==
    <<"to_native_arrays_and_back", "handle_out_argument", "handle_nestable">>

any_defaults == [axis |-> <<>>, keepdims |-> FALSE, out |-> "None"]

any(a) ==
    [resolve |-> <<a.pos[1]>>, name |-> "any",
     pos |-> <<a.pos[1], a.kw.axis, a.kw.keepdims>>, kw |-> [out |-> a.kw.out]]

Wrappers == {"argsort", "sort", "searchsorted", "all", "any"}

Decorators(fn) ==
    CASE fn = "argsort" -> argsort_decorators
      [] fn = "sort" -> sort_decorators
      [] fn = "searchsorted" -> searchsorted_decorators
      [] fn = "all" -> all_decorators
      [] fn = "any" -> any_decorators

Defaults(fn) ==
    CASE fn = "argsort" -> argsort_defaults
      [] fn = "sort" -> sort_defaults
      [] fn = "searchsorted" -> searchsorted_defaults
      [] fn = "all" -> all_defaults
      [] fn = "any" -> any_defaults

BodyOf(fn, a) ==
    CASE fn = "argsort" -> argsort(a)
      [] fn = "sort" -> sort(a)
      [] fn = "searchsorted" -> searchsorted(a)
      [] fn = "all" -> all(a)
      [] fn = "any" -> any(a)

\* A body that calls the backend and returns nothing of what it gave.
BodyReturnsNothing(fn, o) == IF o.err THEN o ELSE Returned(NoVal)

\* A wrapper's body returns what the backend's method returned.
BodyReturn(fn, o) == o

\* Python binds a parameter the caller left out to its default.
Bind(fn, pos, passed) ==
    [pos |-> pos,
     kw |-> [k \in DOMAIN Defaults(fn) |->
                IF passed[k] = <<>> THEN Defaults(fn)[k] ELSE passed[k][1]]]

(***************************************************************************)
(* ArrayWithElementwise: for each method, the public function its body     *)
(* calls and whether it takes a second operand x2.                         *)
(***************************************************************************)
Unary(t) == [target |-> t, binary |-> FALSE]
Binary(t) == [target |-> t, binary |-> TRUE]

ArrayWithElementwise ==
    [abs |-> Unary("abs"), acosh |-> Unary("acosh"), acos |-> Unary("acos"),
     add |-> Binary("add"), asin |-> Unary("asin"), asinh |-> Unary("asinh"),
     atan |-> Unary("atan"), atan2 |-> Binary("atan2"), atanh |-> Unary("atanh"),
     bitwise_and |-> Binary("bitwise_and"),
     bitwise_left_shift |-> Binary("bitwise_left_shift"),
     bitwise_invert |-> Unary("bitwise_invert"),
     bitwise_or |-> Binary("bitwise_or"),
     bitwise_right_shift |-> Binary("bitwise_right_shift"),
     bitwise_xor |-> Binary("bitwise_xor"),
     ceil |-> Unary("ceil"), cos |-> Unary("cos"), cosh |-> Unary("cosh"),
     divide |-> Binary("divide"), equal |-> Binary("equal"),
     exp |-> Unary("exp"), expm1 |-> Unary("expm1"), floor |-> Unary("floor"),
     floor_divide |-> Binary("floor_divide"), greater |-> Binary("greater"),
     greater_equal |-> Binary("greater_equal"),
     isfinite |-> Unary("isfinite"), isinf |-> Unary("isinf"),
     isnan |-> Unary("isinf")]

MixinMethods == DOMAIN ArrayWithElementwise

\* Every method's signature gives out the default None.
ArrayWithElementwise_defaults == [out |-> "None"]

\* A method body with out left out of the call it makes.
MixinBodyDropsOut(m, self, x2, out) ==
    [method |-> m,
     target |-> ArrayWithElementwise[m].target,
     pos |-> IF ArrayWithElementwise[m].binary THEN <<self, x2>> ELSE <<self>>,
     kw |-> [out |-> "None"]]

\* The call of the public function a mixin method's body makes.
MixinBody(m, self, x2, out) ==
    [method |-> m,
     target |-> ArrayWithElementwise[m].target,
     pos |-> IF ArrayWithElementwise[m].binary THEN <<self, x2>> ELSE <<self>>,
     kw |-> [out |-> out]]

(***************************************************************************)
(* The backend registry and the decorators.                                *)
(***************************************************************************)
\* The backend resolver: the active backend, whatever the arrays.
current_backend(xs) == backend

\* An array as the backend's native array, a container leaf by leaf; anything
\* else as it is.
ToNative(a) ==
    IF IsContainer(a)
    THEN Cont(a.keys, [i \in DOMAIN a.leaves |-> Arr("native", a.leaves[i].data)])
    ELSE Arr("native", a.data)

\* A native array wrapped as an ivy.Array, a container leaf by leaf.
ToIvy(a) ==
    IF IsContainer(a)
    THEN Cont(a.keys, [i \in DOMAIN a.leaves |-> Arr("ivy", a.leaves[i].data)])
    ELSE Arr("ivy", a.data)

\* The positional arguments that are arrays: x, and v of searchsorted.
ArrayArgs(fn) == IF fn = "searchsorted" THEN {1, 2} ELSE {1}

ArgsToNative(fn, a) ==
    [a EXCEPT !.pos = [i \in DOMAIN a.pos |->
                          IF i \in ArrayArgs(fn) THEN ToNative(a.pos[i]) ELSE a.pos[i]]]

Stack == Decorators(call.fn)
Entering(d) == pc = "down" /\ depth <= Len(Stack) /\ Stack[depth] = d
Leaving(d) == pc = "up" /\ depth >= 1 /\ Stack[depth] = d
GoDown == pc' = "down" /\ depth' = depth + 1
GoUp == pc' = (IF depth = 1 THEN "done" ELSE "up") /\ depth' = depth - 1
Did(step) == trace' = Append(trace, step)

NoCall == [fn |-> "none", pos |-> <<>>, passed |-> <<>>, backend0 |-> "none"]
NoArgs == [pos |-> <<>>, kw |-> <<>>]
NoNest == [active |-> FALSE, keys |-> <<>>, leaves |-> <<>>, i |-> 0, acc |-> <<>>]
NoHeap == [X |-> <<>>, OUT |-> <<>>]
NoRet == Returned(NoVal)
NoMixin == [method |-> "none", target |-> "none", pos |-> <<>>, kw |-> <<>>]
NoPrev == [set |-> FALSE]

\* to_native_arrays_and_back, on the way in: the array arguments become native
\* arrays; out stays the caller's array.
ToNativeArrays ==
    /\ Entering("to_native_arrays_and_back")
    /\ cur' = ArgsToNative(call.fn, cur)
    /\ GoDown /\ Did("to_native")
    /\ UNCHANGED <<backend, outInBackend, call, outref, nest, heap, log, ret, mixin, prev>>

\* handle_out_argument, on the way in: without out the call goes on as it is;
\* with out the decorator keeps the buffer and either hands it on or not.
HandleOutArgument ==
    /\ Entering("handle_out_argument")
    /\ outref' = cur.kw.out
    /\ \/ cur.kw.out = "None" /\ cur' = cur
       \/ cur.kw.out # "None" /\ outInBackend /\ cur' = cur
       \/ cur.kw.out # "None" /\ ~outInBackend /\ cur' = [cur EXCEPT !.kw.out = "None"]
    /\ GoDown /\ Did("handle_out")
    /\ UNCHANGED <<backend, outInBackend, call, nest, heap, log, ret, mixin, prev>>

\* handle_nestable, on the way in: a container in place of x is unrolled, and
\* the wrapped function is called on its first key's array.
HandleNestable ==
    /\ Entering("handle_nestable")
    /\ \/ /\ ~IsContainer(cur.pos[1])
          /\ UNCHANGED <<cur, nest>>
       \/ /\ IsContainer(cur.pos[1])
          /\ nest' = [active |-> TRUE, keys |-> cur.pos[1].keys,
                      leaves |-> cur.pos[1].leaves, i |-> 1, acc |-> <<>>]
          /\ cur' = [cur EXCEPT !.pos[1] = cur.pos[1].leaves[1]]
    /\ GoDown /\ Did("handle_nestable")
    /\ UNCHANGED <<backend, outInBackend, call, outref, heap, log, ret, mixin, prev>>

\* handle_exceptions, on the way in: the wrapped function is called in a try.
HandleExceptions ==
    /\ Entering("handle_exceptions")
    /\ GoDown /\ Did("handle_exceptions")
    /\ UNCHANGED <<backend, outInBackend, call, cur, outref, nest, heap, log, ret,
                   mixin, prev>>

\* The body with its backend call made twice.
BodyInvokesTwice ==
    /\ pc = "down" /\ depth = Len(Stack) + 1
    /\ LET c == BodyOf(call.fn, cur)
           b == current_backend(c.resolve)
       IN \E o \in BackendOutcomes(b, c.name, c.pos, c.kw) :
            /\ log' = log \o
                  << [backend |-> b, name |-> c.name, pos |-> c.pos, kw |-> c.kw, out |-> o],
                     [backend |-> b, name |-> c.name, pos |-> c.pos, kw |-> c.kw, out |-> o] >>
            /\ ret' = BodyReturn(call.fn, o)
    /\ pc' = "up" /\ depth' = Len(Stack)
    /\ trace' = trace \o <<"resolve", "execute">>
    /\ UNCHANGED <<backend, outInBackend, call, cur, outref, nest, heap, mixin, prev>>

\* The body with the other backend selected after its call.
BodySelectsBackend ==
    /\ pc = "down" /\ depth = Len(Stack) + 1
    /\ LET c == BodyOf(call.fn, cur)
           b == current_backend(c.resolve)
       IN \E o \in BackendOutcomes(b, c.name, c.pos, c.kw) :
            /\ log' = Append(log, [backend |-> b, name |-> c.name, pos |-> c.pos,
                                   kw |-> c.kw, out |-> o])
            /\ ret' = BodyReturn(call.fn, o)
    /\ pc' = "up" /\ depth' = Len(Stack)
    /\ trace' = trace \o <<"resolve", "execute">>
    /\ backend' = CHOOSE nb \in Backends : nb # backend
    /\ UNCHANGED <<outInBackend, call, cur, outref, nest, heap, mixin, prev>>

\* The body with the backend resolved once and kept: a later call still goes
\* to the backend the call before it went to.
BodyKeepsFirstBackend ==
    /\ pc = "down" /\ depth = Len(Stack) + 1
    /\ LET c == BodyOf(call.fn, cur)
           b == IF prev.set THEN prev.call.backend0 ELSE current_backend(c.resolve)
       IN \E o \in BackendOutcomes(b, c.name, c.pos, c.kw) :
            /\ log' = Append(log, [backend |-> b, name |-> c.name, pos |-> c.pos,
                                   kw |-> c.kw, out |-> o])
            /\ ret' = BodyReturn(call.fn, o)
    /\ pc' = "up" /\ depth' = Len(Stack)
    /\ trace' = trace \o <<"resolve", "execute">>
    /\ UNCHANGED <<backend, outInBackend, call, cur, outref, nest, heap, mixin, prev>>

\* The body: the backend is resolved from the arrays, its method of the body's
\* choosing is invoked once with the body's arguments, and what it returns,
\* or raises, is the body's.
Body ==
    /\ pc = "down" /\ depth = Len(Stack) + 1
    /\ LET c == BodyOf(call.fn, cur)
           b == current_backend(c.resolve)
       IN \E o \in BackendOutcomes(b, c.name, c.pos, c.kw) :
            /\ log' = Append(log, [backend |-> b, name |-> c.name, pos |-> c.pos,
                                   kw |-> c.kw, out |-> o])
            /\ ret' = BodyReturn(call.fn, o)
    /\ pc' = "up" /\ depth' = Len(Stack)
    /\ trace' = trace \o <<"resolve", "execute">>
    /\ UNCHANGED <<backend, outInBackend, call, cur, outref, nest, heap, mixin, prev>>

\* handle_exceptions, on the way out: an exception is raised again as the
\* layer's own exception; a value passes.
HandleExceptionsOut ==
    /\ Leaving("handle_exceptions")
    /\ \/ ret.err /\ ret' = [ret EXCEPT !.translated = TRUE]
       \/ ~ret.err /\ ret' = ret
    /\ GoUp /\ Did("translate")
    /\ UNCHANGED <<backend, outInBackend, call, cur, outref, nest, heap, log, mixin, prev>>

\* handle_nestable, on the way out: a plain call's result passes; a container's
\* per-key result is kept and the next key's array is sent down, and after the
\* last key the results are returned under the container's keys.  An exception
\* ends the unrolling.
HandleNestableOut ==
    /\ Leaving("handle_nestable")
    /\ \/ /\ ~nest.active
          /\ GoUp
          /\ UNCHANGED <<cur, nest, ret>>
       \/ /\ nest.active /\ ret.err
          /\ nest' = NoNest
          /\ GoUp
          /\ UNCHANGED <<cur, ret>>
       \/ /\ nest.active /\ ~ret.err /\ nest.i < Len(nest.keys)
          /\ nest' = [nest EXCEPT !.i = nest.i + 1, !.acc = Append(nest.acc, ret.val)]
          /\ cur' = [cur EXCEPT !.pos[1] = nest.leaves[nest.i + 1]]
          /\ GoDown
          /\ UNCHANGED ret
       \/ /\ nest.active /\ ~ret.err /\ nest.i = Len(nest.keys)
          /\ ret' = Returned(Cont(nest.keys, Append(nest.acc, ret.val)))
          /\ nest' = NoNest
          /\ GoUp
          /\ UNCHANGED cur
    /\ Did("collect")
    /\ UNCHANGED <<backend, outInBackend, call, outref, heap, log, mixin, prev>>

\* handle_out_argument, on the way out: with out the result is written into
\* the buffer and the buffer is returned; an exception passes.
HandleOutArgumentOut ==
    /\ Leaving("handle_out_argument")
    /\ \/ /\ outref = "None" \/ ret.err
          /\ UNCHANGED <<heap, ret>>
       \/ /\ outref # "None" /\ ~ret.err
          /\ heap' = [heap EXCEPT ![outref] = ret.val.data]
          /\ ret' = [ret EXCEPT !.val = Arr("ivy", ret.val.data), !.ref = outref]
    /\ GoUp /\ Did("write_out")
    /\ UNCHANGED <<backend, outInBackend, call, cur, outref, nest, log, mixin, prev>>

\* to_native_arrays_and_back, on the way out: the result's arrays are wrapped.
AndBack ==
    /\ Leaving("to_native_arrays_and_back")
    /\ \/ ret.err /\ ret' = ret
       \/ ~ret.err /\ ret' = [ret EXCEPT !.val = ToIvy(ret.val)]
    /\ GoUp /\ Did("to_ivy")
    /\ UNCHANGED <<backend, outInBackend, call, cur, outref, nest, heap, log, mixin, prev>>

(***************************************************************************)
(* The callers.                                                            *)
(***************************************************************************)
PlainArrays == {Arr(k, d) : k \in Kinds, d \in Datas}

Containers ==
    {Cont(<<"a">>, <<Arr("ivy", d)>>) : d \in Datas}
        \cup {Cont(<<"a", "b">>, <<Arr("ivy", d), Arr("ivy", e)>>) : d, e \in Datas}

SortedArrays ==
    {a \in PlainArrays : \A i, j \in 1..Len(a.data) : i < j => a.data[i] <= a.data[j]}

\* The out arguments a caller of fn with input x may give: none, a separate
\* buffer, and for sort and argsort the input array itself.
OutChoices(fn, x) ==
    {<<>>, <<"OUT">>}
        \cup (IF fn \in {"sort", "argsort"} /\ x.kind = "ivy" THEN {<<"X">>} ELSE {})

\* A call begins: the parameters are bound and the first decorator is entered.
Start(fn, pos, passed) ==
    /\ call' = [fn |-> fn, pos |-> pos, passed |-> passed, backend0 |-> backend]
    /\ cur' = Bind(fn, pos, passed)
    /\ heap' = [X |-> IF IsContainer(pos[1]) THEN <<>> ELSE pos[1].data, OUT |-> <<0>>]
    /\ pc' = "down" /\ depth' = 1
    /\ outref' = "None" /\ nest' = NoNest /\ log' = <<>> /\ ret' = NoRet
    /\ trace' = <<>> /\ mixin' = NoMixin
    /\ UNCHANGED <<backend, outInBackend>>

CallSorting ==
    \E fn \in {"argsort", "sort"}, x \in PlainArrays,
       axis \in {<<>>, <<0>>, <<1>>}, descending \in {<<>>, <<TRUE>>},
       stable \in {<<>>, <<FALSE>>} :
        \E out \in OutChoices(fn, x) :
            Start(fn, <<x>>, [axis |-> axis, descending |-> descending,
                              stable |-> stable, out |-> out])

CallSortingNested ==
    \E fn \in {"argsort", "sort"}, x \in Containers,
       axis \in {<<>>, <<1>>}, descending \in {<<>>, <<TRUE>>},
       stable \in {<<>>, <<FALSE>>} :
        Start(fn, <<x>>, [axis |-> axis, descending |-> descending,
                          stable |-> stable, out |-> <<>>])

CallSearchsorted ==
    \E x \in SortedArrays, v \in Datas,
       side \in {<<>>, <<"right">>, <<"middle">>}, out \in {<<>>, <<"OUT">>} :
        \E sorter \in {<<>>, << [i \in 1..Len(x.data) |-> i - 1] >>} :
            Start("searchsorted", <<x, Arr("ivy", v)>>,
                  [side |-> side, sorter |-> sorter, out |-> out])

CallReduction ==
    \E fn \in {"all", "any"}, x \in PlainArrays,
       axis \in {<<>>, << <<0>> >>, << <<1>> >>}, keepdims \in {<<>>, <<TRUE>>},
       out \in {<<>>, <<"OUT">>} :
        Start(fn, <<x>>, [axis |-> axis, keepdims |-> keepdims, out |-> out])

CallReductionNested ==
    \E fn \in {"all", "any"}, x \in Containers,
       axis \in {<<>>, << <<1>> >>}, keepdims \in {<<>>, <<TRUE>>} :
        Start(fn, <<x>>, [axis |-> axis, keepdims |-> keepdims, out |-> <<>>])

Call ==
    /\ pc = "idle"
    /\ \/ CallSorting
       \/ CallSortingNested
       \/ CallSearchsorted
       \/ CallReduction
       \/ CallReductionNested
    /\ UNCHANGED prev

\* The call is over: its value or its exception is the caller's, and the layer
\* keeps nothing of it.
Forget ==
    /\ pc' = "idle" /\ depth' = 0
    /\ call' = NoCall /\ cur' = NoArgs /\ outref' = "None" /\ nest' = NoNest
    /\ heap' = NoHeap /\ log' = <<>> /\ ret' = NoRet /\ trace' = <<>>
    /\ mixin' = NoMixin
    /\ UNCHANGED <<backend, outInBackend>>

Return ==
    /\ pc = "done"
    /\ Forget
    /\ UNCHANGED prev

\* Between calls the user selects a backend.
SetBackend ==
    /\ pc = "idle"
    /\ \E b \in Backends : b # backend /\ backend' = b
    /\ UNCHANGED <<outInBackend, pc, depth, call, cur, outref, nest, heap, log, ret,
                   trace, mixin, prev>>

\* A method of the mixin is called on an array, with a second operand if the
\* method takes one and with or without out: its body calls a public function
\* and returns.
MixinCall ==
    /\ pc = "idle"
    /\ \E m \in MixinMethods, d \in Datas,
          x2 \in {Arr("ivy", <<1, 1>>), Arr("native", <<0>>)},
          out \in {<<>>, <<"None">>, <<"OUT">>} :
          LET self == Arr("ivy", d)
              bound == IF out = <<>> THEN ArrayWithElementwise_defaults.out ELSE out[1]
          IN /\ call' = [fn |-> m,
                         pos |-> IF ArrayWithElementwise[m].binary
                                 THEN <<self, x2>> ELSE <<self>>,
                         passed |-> [out |-> out], backend0 |-> backend]
             /\ mixin' = MixinBody(m, self, x2, bound)
    /\ pc' = "done"
    /\ UNCHANGED <<backend, outInBackend, depth, cur, outref, nest, heap, log,
                   ret, trace, prev>>

Init ==
    /\ backend \in Backends
    /\ outInBackend \in BOOLEAN
    /\ pc = "idle" /\ depth = 0
    /\ call = NoCall /\ cur = NoArgs /\ outref = "None" /\ nest = NoNest
    /\ heap = NoHeap /\ log = <<>> /\ ret = NoRet /\ trace = <<>>
    /\ mixin = NoMixin /\ prev = NoPrev

Next ==
    \/ Call
    \/ ToNativeArrays
    \/ HandleOutArgument
    \/ HandleNestable
    \/ HandleExceptions
    \/ Body
    \/ HandleExceptionsOut
    \/ HandleNestableOut
    \/ HandleOutArgumentOut
    \/ AndBack
    \/ Return
    \/ SetBackend
    \/ MixinCall

Spec == Init /\ [][Next]_vars

(***************************************************************************)
(* Two runs on one input: a completed call is remembered and made again,   *)
(* possibly under another backend.                                         *)
(***************************************************************************)
Observed ==
    [set |-> TRUE, call |-> call,
     names |-> [i \in DOMAIN log |-> log[i].name],
     args |-> [i \in DOMAIN log |-> <<log[i].pos, log[i].kw>>],
     outs |-> [i \in DOMAIN log |-> log[i].out],
     ret |-> ret, heap |-> heap]

CallFirst == ~prev.set /\ Call

CallAgain ==
    /\ pc = "idle" /\ prev.set
    /\ Start(prev.call.fn, prev.call.pos, prev.call.passed)
    /\ UNCHANGED prev

ReturnRecord ==
    /\ pc = "done"
    /\ Forget
    /\ prev' = Observed

NextRepeat ==
    \/ CallFirst
    \/ CallAgain
    \/ ToNativeArrays
    \/ HandleOutArgument
    \/ HandleNestable
    \/ HandleExceptions
    \/ Body
    \/ HandleExceptionsOut
    \/ HandleNestableOut
    \/ HandleOutArgumentOut
    \/ AndBack
    \/ ReturnRecord
    \/ SetBackend

SpecRepeat == Init /\ [][NextRepeat]_vars

(***************************************************************************)
(* What the properties below speak of.                                     *)
(***************************************************************************)
InCall == pc # "idle" /\ call.fn \in Wrappers
Done == pc = "done" /\ call.fn \in Wrappers
Bound == Bind(call.fn, call.pos, call.passed)
Nested == IsContainer(call.pos[1])

\* The arguments of a call of fn by name: those the caller's call binds.
PassedArgs(fn, a) ==
    CASE fn \in {"argsort", "sort"} ->
            [x |-> a.pos[1], axis |-> a.kw.axis, descending |-> a.kw.descending,
             stable |-> a.kw.stable, out |-> a.kw.out]
      [] fn = "searchsorted" ->
            [x |-> a.pos[1], v |-> a.pos[2], side |-> a.kw.side,
             sorter |-> a.kw.sorter, out |-> a.kw.out]
      [] fn \in {"all", "any"} ->
            [x |-> a.pos[1], axis |-> a.kw.axis, keepdims |-> a.kw.keepdims,
             out |-> a.kw.out]

\* The arguments a backend method received, by name: x, axis and keepdims of
\* all and any are its first, second and third positional parameter.
Received(e) ==
    CASE e.name \in {"argsort", "sort"} ->
            [x |-> e.pos[1], axis |-> e.kw.axis, descending |-> e.kw.descending,
             stable |-> e.kw.stable, out |-> e.kw.out]
      [] e.name = "searchsorted" ->
            [x |-> e.pos[1], v |-> e.pos[2], side |-> e.kw.side,
             sorter |-> e.kw.sorter, out |-> e.kw.out]
      [] e.name \in {"all", "any"} ->
            [x |-> e.pos[1], axis |-> e.pos[2], keepdims |-> e.pos[3],
             out |-> e.kw.out]

SameName(i) == log[i].name = call.fn /\ log[i].backend = call.backend0

\* The caller's arguments as the i-th backend call of this call is to see them:
\* arrays as native arrays, a container's i-th array in place of the container.
AsNative(i) ==
    LET a == PassedArgs(call.fn, Bound)
        x == IF Nested THEN ToNative(call.pos[1].leaves[i]) ELSE ToNative(a.x)
        b == [a EXCEPT !.x = x]
    IN IF call.fn = "searchsorted" THEN [b EXCEPT !.v = ToNative(a.v)] ELSE b

(***************************************************************************)
(* C1, as stated: every backend call of a wrapper call is of the method of *)
(* the wrapper's name on the active backend and receives exactly the       *)
(* values the caller passed, with omitted arguments at their defaults.     *)
(***************************************************************************)
C1_AsStated ==
    InCall => \A i \in DOMAIN log :
                 SameName(i) /\ Received(log[i]) = PassedArgs(call.fn, Bound)

(***************************************************************************)
(* C1, amended: every backend call of a wrapper call is of the method of   *)
(* the wrapper's name on the active backend; it receives the caller's      *)
(* array arguments as native arrays of the same data (for a container, one *)
(* key's array per call), out as the caller passed it or None when the out *)
(* decorator keeps the buffer to itself, and every other argument exactly  *)
(* as passed, omitted ones at the declared defaults.                       *)
(***************************************************************************)
C1_Forwarded ==
    InCall => \A i \in DOMAIN log :
                 /\ SameName(i)
                 /\ [Received(log[i]) EXCEPT !.out = "None"] = [AsNative(i) EXCEPT !.out = "None"]
                 /\ Received(log[i]).out \in {Bound.kw.out, "None"}

C1_Witness ==
    /\ Done /\ call.fn = "argsort" /\ Len(log) = 1
    /\ call.pos[1] = Arr("ivy", <<1, 0>>)
    /\ call.passed.axis = <<>> /\ call.passed.descending = <<TRUE>>
    /\ call.passed.out = <<"OUT">> /\ log[1].kw.out = "OUT"
    /\ log[1].kw.axis = -1 /\ log[1].kw.descending

(***************************************************************************)
(* C2: a wrapper called without out returns the backend's return value,    *)
(* wrapped as an ivy array and otherwise unchanged; for a container, the   *)
(* backend's return values under the container's keys.                     *)
(***************************************************************************)
C2_ReturnsBackendValue ==
    (Done /\ Bound.kw.out = "None" /\ ~ret.err) =>
        /\ ret.ref = "None"
        /\ \A i \in DOMAIN log : ~log[i].out.err
        /\ IF Nested
           THEN ret.val = Cont(call.pos[1].keys,
                               [i \in DOMAIN log |-> ToIvy(log[i].out.val)])
           ELSE Len(log) = 1 /\ ret.val = ToIvy(log[1].out.val)

C2_Witness ==
    /\ Done /\ call.fn = "sort" /\ call.pos[1] = Arr("native", <<1, 0>>)
    /\ Bound.kw.out = "None" /\ ret = Returned(Arr("ivy", <<0, 1>>))

(***************************************************************************)
(* C3: a wrapper called with out returns that buffer, and the buffer holds *)
(* the backend's result; with out the input array itself, the input array  *)
(* holds the result.                                                       *)
(***************************************************************************)
C3_WritesOut ==
    (Done /\ Bound.kw.out # "None" /\ ~ret.err) =>
        /\ Len(log) = 1 /\ ~log[1].out.err
        /\ heap[Bound.kw.out] = log[1].out.val.data
        /\ ret.ref = Bound.kw.out
        /\ ret.val = Arr("ivy", heap[Bound.kw.out])

C3_Witness ==
    /\ Done /\ call.fn = "sort" /\ call.pos[1] = Arr("ivy", <<1, 0>>)
    /\ Bound.kw.out = "X" /\ heap.X = <<0, 1>> /\ ret.ref = "X"

(***************************************************************************)
(* C4, as stated: two runs of one call that differ only in the active      *)
(* backend dispatch the same method names, forward the same arguments and  *)
(* return the same result.                                                 *)
(***************************************************************************)
TwoRuns == Done /\ prev.set /\ prev.call.backend0 # call.backend0

SameDispatch ==
    /\ prev.names = [i \in DOMAIN log |-> log[i].name]
    /\ prev.args = [i \in DOMAIN log |-> <<log[i].pos, log[i].kw>>]

SameResult == prev.ret = ret /\ prev.heap = heap

BackendsChoice == call.fn = "argsort" /\ ~Bound.kw.stable

C5_AsStated == mixin.method # "none" => mixin.target = mixin.method

(***************************************************************************)
(* C6, as stated: when a backend method raises, the wrapper's call ends in *)
(* an exception, and that exception went through the translation step.     *)
(***************************************************************************)
C6_AsStated ==
    (Done /\ \E i \in DOMAIN log : log[i].out.err) => (ret.err /\ ret.translated)

(***************************************************************************)
(* C7, as stated: every wrapper carries the same decorators in the same    *)
(* order, and every call of a wrapper on an array converts its inputs,     *)
(* handles out, unrolls containers, resolves the backend, executes the     *)
(* backend method and writes back and converts the result, in that order.  *)
(***************************************************************************)
ClaimedStep(st) ==
    st \in {"to_native", "handle_out", "handle_nestable", "resolve", "execute",
            "write_out", "to_ivy"}

C7_Order ==
    (Done /\ ~Nested) =>
        SelectSeq(trace, ClaimedStep) =
            <<"to_native", "handle_out", "handle_nestable", "resolve", "execute",
              "write_out", "to_ivy">>

C7_Uniform == InCall => \A g \in Wrappers : Decorators(call.fn) = Decorators(g)

C7_AsStated == C7_Order /\ C7_Uniform

(***************************************************************************)
(* C8: no step of a wrapper call or of a mixin method writes the active    *)
(* backend: throughout a call, and when it has returned or raised, the     *)
(* active backend is the one the call began under.                         *)
(***************************************************************************)
C8_BackendUnwritten ==
    /\ [](InCall => backend = call.backend0)
    /\ [][(pc # "idle" \/ pc' # "idle") => backend' = backend]_vars

C8_Witness == Done /\ ret.err /\ backend = call.backend0 /\ Len(log) = 1

(***************************************************************************)
(* C9: a wrapper called on a container invokes the backend once per key,   *)
(* in key order, on that key's array with the caller's other arguments,    *)
(* and, unless a backend call raises, returns a container of the same keys *)
(* holding each key's backend result.                                      *)
(***************************************************************************)
C9_PerKey ==
    (InCall /\ Nested) =>
        /\ Len(log) <= Len(call.pos[1].keys)
        /\ \A i \in DOMAIN log :
              /\ SameName(i)
              /\ Received(log[i]) = AsNative(i)
              /\ (i < Len(log)) => ~log[i].out.err
        /\ pc = "done" =>
              IF \E i \in DOMAIN log : log[i].out.err
              THEN ret.err
              ELSE /\ ~ret.err
                   /\ Len(log) = Len(call.pos[1].keys)
                   /\ ret.val = Cont(call.pos[1].keys,
                                     [i \in DOMAIN log |-> ToIvy(log[i].out.val)])

C9_Witness ==
    /\ Done /\ call.fn = "sort" /\ Bound.kw.descending
    /\ call.pos[1] = Cont(<<"a", "b">>, <<Arr("ivy", <<0, 1>>), Arr("ivy", <<1>>)>>)
    /\ ret = Returned(Cont(<<"a", "b">>, <<Arr("ivy", <<1, 0>>), Arr("ivy", <<1>>)>>))
    /\ Len(log) = 2

(***************************************************************************)
(* C10: a wrapper called on an array invokes the backend's method exactly  *)
(* once; when that raises, nothing is invoked again and the call raises.   *)
(***************************************************************************)
C10_Once ==
    (InCall /\ ~Nested) =>
        /\ Len(log) <= 1
        /\ pc = "done" => Len(log) = 1 /\ (log[1].out.err <=> ret.err)

C10_Witness ==
    /\ Done /\ ~Nested /\ call.fn = "searchsorted" /\ Len(log) = 1
    /\ log[1].out.err /\ ret.err

(***************************************************************************)
(* C11: the backend is resolved when the wrapper is called: every backend  *)
(* call of a wrapper call goes to the backend active at that moment, so a  *)
(* call made after the active backend was switched goes to the newly       *)
(* selected backend and not to the one the call before it went to.         *)
(***************************************************************************)
C11_ResolvedAtCallTime ==
    InCall => \A i \in DOMAIN log :
                 /\ log[i].backend = backend
                 /\ (prev.set /\ prev.call.backend0 # backend) =>
                        log[i].backend # prev.call.backend0

C11_Witness ==
    /\ TwoRuns /\ call.fn = "searchsorted" /\ Len(log) = 1 /\ ~ret.err
    /\ prev.call.backend0 = "numpy" /\ backend = "torch" /\ log[1].backend = "torch"

(***************************************************************************)
(* C12: every method of ArrayWithElementwise hands its arguments on        *)
(* unchanged: the receiving array first, the second operand of the binary  *)
(* methods second, both by position, and out by keyword, None when the     *)
(* caller left it out.                                                     *)
(***************************************************************************)
BinaryMethods ==
    {"add", "atan2", "bitwise_and", "bitwise_or", "bitwise_xor",
     "bitwise_left_shift", "bitwise_right_shift", "divide", "equal",
     "floor_divide", "greater", "greater_equal"}

C12_MixinForwards ==
    mixin.method # "none" =>
        /\ call.fn = mixin.method
        /\ mixin.pos = call.pos
        /\ Len(mixin.pos) = (IF mixin.method \in BinaryMethods THEN 2 ELSE 1)
        /\ DOMAIN mixin.kw = {"out"}
        /\ mixin.kw.out = (IF call.passed.out = <<>> THEN "None" ELSE call.passed.out[1])

C12_Witness ==
    /\ mixin.method = "greater_equal" /\ call.passed.out = <<>>
    /\ mixin.pos = <<Arr("ivy", <<0, 1>>), Arr("native", <<0>>)>>
    /\ mixin.kw = [out |-> "None"]

====
